---- MODULE Spec2Model ----
(***************************************************************************)
(* Employee Management System (src/app.py): a Streamlit dashboard over a   *)
(* PostgreSQL store.  Every browser session runs main() once per           *)
(* interaction; each handler opens its own connection, runs a few          *)
(* statements in one READ COMMITTED transaction and commits.  The model    *)
(* keeps the three tables, the SERIAL sequences, each session's            *)
(* st.session_state.user, the position of each session's running handler   *)
(* (between two of its SQL statements) and what the last run rendered.     *)
(***************************************************************************)
EXTENDS Integers, Sequences, FiniteSets, TLC

VARIABLES
    users,          \* table users: set of rows [id, username, password, role]
    work_reports,   \* table work_reports: set of rows [id, user_id, report_date, report_content]
    tasks,          \* table tasks: set of rows [id, user_id, task_description, due_date, status]
    seq,            \* the SERIAL sequences: next id of each table
    session,        \* st.session_state.user of each browser session
    local,          \* each session's running handler: its fetched rows and open transaction
    shown,          \* what the last script run rendered: [session, message, form, table]
    today           \* datetime.now().date()

vars == <<users, work_reports, tasks, seq, session, local, shown, today>>

(***************************************************************************)
(* Bounds of the model.                                                    *)
(***************************************************************************)
MaxInserts == 3     \* INSERTs attempted over a run, all three tables together
MaxListed == 3      \* rows of the tasks table in the listing specification

Sessions == {"s1", "s2"}
EmployeeNames == {"alice", "bob"}
LoginNames == {"admin", "alice", "nobody"}
LoginPasswords == {"admin123", "pw1", "wrong"}
NewPasswords == {"pw1"}
Contents == {"c1", "c2"}
Descriptions == {"t1"}

(***************************************************************************)
(* Calendar dates: datetime.date as [year, month, day], with the           *)
(* arithmetic of datetime (toordinal, fromordinal, weekday, + timedelta).  *)
(***************************************************************************)
Date(y, m, d) == [year |-> y, month |-> m, day |-> d]

IsLeap(y) == (y % 4 = 0) /\ ((y % 100 # 0) \/ (y % 400 = 0))

DaysInMonth(y, m) ==
    IF m = 2 THEN (IF IsLeap(y) THEN 29 ELSE 28)
    ELSE IF m \in {4, 6, 9, 11} THEN 30 ELSE 31

DaysBeforeYear(y) ==
    LET p == y - 1 IN p * 365 + (p \div 4) - (p \div 100) + (p \div 400)

RECURSIVE DaysBeforeMonth(_, _)
DaysBeforeMonth(y, m) ==
    IF m = 1 THEN 0 ELSE DaysBeforeMonth(y, m - 1) + DaysInMonth(y, m - 1)

toordinal(d) == DaysBeforeYear(d.year) + DaysBeforeMonth(d.year, d.month) + d.day

\* datetime's _ord2ymd: 400-, 100-, 4- and 1-year cycles, then the month.
fromordinal(n) ==
    LET n0   == n - 1
        n400 == n0 \div 146097
        r400 == n0 % 146097
        n100 == r400 \div 36524
        r100 == r400 % 36524
        n4   == r100 \div 1461
        r4   == r100 % 1461
        n1   == r4 \div 365
        r1   == r4 % 365
        year == n400 * 400 + 1 + n100 * 100 + n4 * 4 + n1
    IN  IF n1 = 4 \/ n100 = 4
        THEN Date(year - 1, 12, 31)
        ELSE LET month == CHOOSE m \in 1..12 :
                              /\ DaysBeforeMonth(year, m) <= r1
                              /\ r1 < DaysBeforeMonth(year, m) + DaysInMonth(year, m)
             IN  Date(year, month, r1 - DaysBeforeMonth(year, month) + 1)

\* date + timedelta(days=k)
AddDays(d, k) == fromordinal(toordinal(d) + k)

\* date.weekday(): Monday is 0, Sunday is 6
weekday(d) == (toordinal(d) + 6) % 7

\* date.replace(day=1) and date.replace(month=1, day=1)
ReplaceDay1(d) == Date(d.year, d.month, 1)
ReplaceMonth1Day1(d) == Date(d.year, 1, 1)

\* The storage engine's order on DATE values.
DateLE(a, b) ==
    \/ a.year < b.year
    \/ a.year = b.year /\ a.month < b.month
    \/ a.year = b.year /\ a.month = b.month /\ a.day <= b.day

(***************************************************************************)
(* Credentials.                                                            *)
(***************************************************************************)
\* A wrongly keyed digest: every password hashes to the same value.
hash_password_unkeyed(password) ==
    "240be518fabd2724ddb6f04eeb1da5967448d7e831c08c8fa822809f74c720a9"

\* hashlib.sha256(password.encode()).hexdigest(), on the passwords of the model.
hash_password(password) ==
    CASE password = "admin123" ->
             "240be518fabd2724ddb6f04eeb1da5967448d7e831c08c8fa822809f74c720a9"
      [] password = "pw1" ->
             "c592df4a86933b92addc9842402ddf198c638ea9be58916ee6e3734e1e3152f8"
      [] password = "wrong" ->
             "8810ad581e59f2bc3928b261707a71308f7e139eb04820366dc4d5c18d980225"
      [] password = "" ->
             "e3b0c44298fc1c149afbf4c8996fb92427ae41e4649b934ca495991b7852b855"

\* Python's None where a users row is expected (fetchone() found nothing,
\* st.session_state.user of an anonymous session).
None == [id |-> 0, username |-> "", password |-> "", role |-> ""]

\* init_db's seed: the admin row is inserted when no row is named 'admin'.
init_db(U, next) ==
    IF \E u \in U : u.username = "admin"
    THEN [users |-> U, next |-> next]
    ELSE [users |-> U \cup {[id |-> next, username |-> "admin",
                             password |-> hash_password("admin123"),
                             role |-> "admin"]},
          next |-> next + 1]

\* main() starts every script run with init_db().
Boot == init_db(users, seq.users)

\* SELECT * FROM users WHERE username = %s AND password = %s; fetchone()
authenticate(U, username, password) ==
    LET found == {u \in U : u.username = username
                            /\ u.password = hash_password(password)}
    IN  IF found = {} THEN None ELSE CHOOSE u \in found : TRUE

(***************************************************************************)
(* Sessions and what a script run renders.                                 *)
(***************************************************************************)
Idle == [op |-> "idle"]
NoForm == [kind |-> "none"]

Render(s, message) ==
    [session |-> s, message |-> message, form |-> NoForm, table |-> <<>>]

\* st.dataframe(...) of a query's rows, under the widgets that chose them.
RenderTable(s, message, form, table) ==
    [session |-> s, message |-> message, form |-> form, table |-> table]

Init ==
    LET b == init_db({}, 1)
    IN  /\ users = b.users
        /\ work_reports = {}
        /\ tasks = {}
        /\ seq = [users |-> b.next, work_reports |-> 1, tasks |-> 1]
        /\ session = [s \in Sessions |-> None]
        /\ local = [s \in Sessions |-> Idle]
        /\ shown = Render("s1", "")
        /\ today = Date(2024, 3, 15)

\* A script run with no widget pressed, asked for by the user or by
\* st.rerun() at the end of another run: init_db() and the page for the
\* session.
Rerun(s) ==
    /\ local[s] = Idle
    /\ users' = Boot.users
    /\ seq' = [seq EXCEPT !.users = Boot.next]
    /\ shown' = Render(s, IF session[s] = None
                          THEN "Please login to access the system." ELSE "")
    /\ UNCHANGED <<work_reports, tasks, session, local, today>>

\* The login form of an anonymous session (main, the sidebar).
Login(s, username, password) ==
    /\ local[s] = Idle
    /\ session[s] = None
    /\ users' = Boot.users
    /\ seq' = [seq EXCEPT !.users = Boot.next]
    /\ LET user == authenticate(Boot.users, username, password)
       IN  IF user # None
           THEN /\ session' = [session EXCEPT ![s] = user]
                /\ shown' = Render(s, "")
           ELSE /\ session' = session
                /\ shown' = Render(s, "Invalid username or password")
    /\ UNCHANGED <<work_reports, tasks, local, today>>

\* The Logout button of an authenticated session: the run signs the session
\* out and ends in st.rerun() with nothing rendered; the page for the
\* anonymous session comes with the rerun (Rerun).
Logout(s) ==
    /\ local[s] = Idle
    /\ session[s] # None
    /\ users' = Boot.users
    /\ seq' = [seq EXCEPT !.users = Boot.next]
    /\ session' = [session EXCEPT ![s] = None]
    /\ shown' = Render(s, "")
    /\ UNCHANGED <<work_reports, tasks, local, today>>

\* The INSERTs attempted so far (each draws an id from its table's sequence,
\* the seeded admin's aside) and those that running handlers are still to make.
Inserts ==
    (seq.users - 2) + (seq.work_reports - 1) + (seq.tasks - 1)
    + Cardinality({x \in Sessions : local[x].op = "submit" /\ local[x].existing_report = 0})
    + Cardinality({x \in Sessions : local[x].op = "assign"})

(***************************************************************************)
(* Admin dashboard.                                                        *)
(***************************************************************************)
IsAdmin(s) == session[s] # None /\ session[s].role = "admin"
IsEmployee(s) == session[s] # None /\ session[s].role # "admin"

\* Creating an account signs the creating session in as the new employee.
admin_create_employee_signs_in(s, username, password) ==
    /\ local[s] = Idle
    /\ IsAdmin(s)
    /\ username # "" /\ password # ""
    /\ Inserts < MaxInserts
    /\ ~ \E u \in Boot.users : u.username = username
    /\ seq' = [seq EXCEPT !.users = Boot.next + 1]
    /\ LET user == [id |-> Boot.next, username |-> username,
                    password |-> hash_password(password), role |-> "employee"]
       IN  /\ users' = Boot.users \cup {user}
           /\ session' = [session EXCEPT ![s] = user]
    /\ shown' = Render(s, "Employee " \o username \o " created successfully!")
    /\ UNCHANGED <<work_reports, tasks, local, today>>

\* admin_create_employee: INSERT INTO users, UniqueViolation on a taken name.
admin_create_employee(s, username, password) ==
    /\ local[s] = Idle
    /\ IsAdmin(s)
    /\ IF username # "" /\ password # ""
       THEN /\ Inserts < MaxInserts
            /\ seq' = [seq EXCEPT !.users = Boot.next + 1]
            /\ IF \E u \in Boot.users : u.username = username
               THEN /\ users' = Boot.users
                    /\ shown' = Render(s, "Username " \o username \o " already exists!")
               ELSE /\ users' = Boot.users \cup
                                {[id |-> Boot.next, username |-> username,
                                  password |-> hash_password(password),
                                  role |-> "employee"]}
                    /\ shown' = Render(s, "Employee " \o username
                                           \o " created successfully!")
       ELSE /\ users' = Boot.users
            /\ seq' = [seq EXCEPT !.users = Boot.next]
            /\ shown' = Render(s, "Please fill all fields!")
    /\ UNCHANGED <<work_reports, tasks, session, local, today>>

(***************************************************************************)
(* Row locks: a row deleted by a transaction that has not ended is locked, *)
(* and another session's UPDATE or DELETE of it waits for that end.        *)
(***************************************************************************)
LockedReports(s) ==
    UNION {local[o].del_reports : o \in {x \in Sessions \ {s} : local[x].op = "delete"}}

LockedTasks(s) ==
    UNION {local[o].del_tasks : o \in {x \in Sessions \ {s} : local[x].op = "delete"}}

\* ORDER BY: every enumeration of S in nondecreasing key order (rows of equal
\* key come in any order).  Keys are tuples of integers, compared left to right.
LexLE(a, b) ==
    \E i \in 1..(Len(a) + 1) :
       /\ \A j \in 1..(i - 1) : a[j] = b[j]
       /\ i = Len(a) + 1 \/ a[i] < b[i]

RECURSIVE OrderBy(_, _)
OrderBy(S, key) ==
    IF S = {} THEN {<<>>}
    ELSE LET first == {r \in S : \A q \in S : LexLE(key[r], key[q])}
         IN  UNION {{<<r>> \o t : t \in OrderBy(S \ {r}, key)} : r \in first}

\* admin_manage_employees: SELECT the employees; the selected one is removed.
admin_manage_select(s, selected_employee) ==
    /\ local[s] = Idle
    /\ IsAdmin(s)
    /\ users' = Boot.users
    /\ seq' = [seq EXCEPT !.users = Boot.next]
    /\ LET employees == {u \in Boot.users : u.role = "employee"}
       IN  IF employees = {}
           THEN /\ local' = local
                /\ shown' = Render(s, "No employees found.")
           ELSE /\ \E e \in employees : e.username = selected_employee
                /\ LET e == CHOOSE x \in employees : x.username = selected_employee
                   IN  local' = [local EXCEPT ![s] =
                                    [op |-> "delete", stage |-> "reports",
                                     employee_id |-> e.id, username |-> e.username,
                                     del_reports |-> {}, del_tasks |-> {}]]
                /\ shown' = shown
    /\ UNCHANGED <<work_reports, tasks, session, today>>

\* DELETE FROM work_reports WHERE user_id = %s (not yet committed)
admin_delete_reports(s) ==
    /\ local[s].op = "delete"
    /\ local[s].stage = "reports"
    /\ LET hit == {r.id : r \in {x \in work_reports : x.user_id = local[s].employee_id}}
       IN  /\ hit \cap LockedReports(s) = {}
           /\ local' = [local EXCEPT ![s].del_reports = hit, ![s].stage = "tasks"]
    /\ UNCHANGED <<users, work_reports, tasks, seq, session, shown, today>>

\* The DELETE without its WHERE clause: every user's tasks go.
admin_delete_tasks_of_all(s) ==
    /\ local[s].op = "delete"
    /\ local[s].stage = "tasks"
    /\ LET hit == {t.id : t \in tasks}
       IN  /\ hit \cap LockedTasks(s) = {}
           /\ local' = [local EXCEPT ![s].del_tasks = hit, ![s].stage = "users"]
    /\ UNCHANGED <<users, work_reports, tasks, seq, session, shown, today>>

\* DELETE FROM tasks WHERE user_id = %s (not yet committed)
admin_delete_tasks(s) ==
    /\ local[s].op = "delete"
    /\ local[s].stage = "tasks"
    /\ LET hit == {t.id : t \in {x \in tasks : x.user_id = local[s].employee_id}}
       IN  /\ hit \cap LockedTasks(s) = {}
           /\ local' = [local EXCEPT ![s].del_tasks = hit, ![s].stage = "users"]
    /\ UNCHANGED <<users, work_reports, tasks, seq, session, shown, today>>

\* DELETE FROM users WHERE id = %s; conn.commit().  The foreign keys of
\* work_reports and tasks reject the delete while a row the transaction has
\* not deleted still references the user: the exception ends the run and the
\* transaction is rolled back.
admin_delete_user(s) ==
    /\ local[s].op = "delete"
    /\ local[s].stage = "users"
    /\ LET e == local[s].employee_id
           refs == {r \in work_reports : r.user_id = e /\ r.id \notin local[s].del_reports}
                   \cup {t \in tasks : t.user_id = e /\ t.id \notin local[s].del_tasks}
       IN  IF (\E u \in users : u.id = e) /\ refs # {}
           THEN /\ UNCHANGED <<users, work_reports, tasks>>
                /\ shown' = Render(s, "psycopg2.errors.ForeignKeyViolation")
           ELSE /\ users' = {u \in users : u.id # e}
                /\ work_reports' = {r \in work_reports : r.id \notin local[s].del_reports}
                /\ tasks' = {t \in tasks : t.id \notin local[s].del_tasks}
                /\ shown' = Render(s, "Employee " \o local[s].username
                                       \o " removed successfully!")
    /\ local' = [local EXCEPT ![s] = Idle]
    /\ UNCHANGED <<seq, session, today>>

\* The key of ORDER BY t.due_date ASC
AdminTaskKey(t) == <<t.due_date.year, t.due_date.month, t.due_date.day>>

\* SELECT t.id, u.username, t.task_description, t.due_date, t.status
\* FROM tasks t JOIN users u ON t.user_id = u.id ORDER BY t.due_date ASC
admin_task_listing(T, U) ==
    LET joined == {t \in T : \E u \in U : u.id = t.user_id}
        row(t) == [id |-> t.id,
                   username |-> (CHOOSE u \in U : u.id = t.user_id).username,
                   task_description |-> t.task_description,
                   due_date |-> t.due_date, status |-> t.status]
        sorted == OrderBy(joined, [t \in joined |-> AdminTaskKey(t)])
    IN  {[i \in 1..Len(q) |-> row(q[i])] : q \in sorted}

\* admin_assign_task: SELECT the employees; with the form submitted the run
\* goes on to the INSERT, without it to the SELECT of the existing tasks.
admin_assign_select(s, submit_button) ==
    /\ local[s] = Idle
    /\ IsAdmin(s)
    /\ users' = Boot.users
    /\ seq' = [seq EXCEPT !.users = Boot.next]
    /\ LET employees == {[id |-> u.id, username |-> u.username] :
                            u \in {x \in Boot.users : x.role = "employee"}}
       IN  IF employees = {}
           THEN /\ local' = local
                /\ shown' = Render(s, "No employees found.")
           ELSE /\ submit_button => Inserts < MaxInserts
                /\ local' = [local EXCEPT ![s] =
                                IF submit_button
                                THEN [op |-> "assign", employees |-> employees]
                                ELSE [op |-> "assign_listing", message |-> ""]]
                /\ shown' = shown
    /\ UNCHANGED <<work_reports, tasks, session, today>>

\* INSERT INTO tasks (user_id, task_description, due_date); commit.  status
\* takes the column default 'pending'.  The run goes on to the SELECT of the
\* existing tasks unless the INSERT raised.
admin_assign_insert(s, selected_employee, task_description, due_date) ==
    /\ local[s].op = "assign"
    /\ \E e \in local[s].employees : e.username = selected_employee
    /\ DateLE(today, due_date)
    /\ IF task_description # ""
       THEN LET employee_id ==
                    (CHOOSE e \in local[s].employees : e.username = selected_employee).id
            IN  /\ seq' = [seq EXCEPT !.tasks = seq.tasks + 1]
                /\ IF \E u \in users : u.id = employee_id
                   THEN /\ tasks' = tasks \cup
                                {[id |-> seq.tasks, user_id |-> employee_id,
                                  task_description |-> task_description,
                                  due_date |-> due_date, status |-> "pending"]}
                        /\ local' = [local EXCEPT ![s] =
                                        [op |-> "assign_listing",
                                         message |-> "Task assigned to " \o selected_employee
                                                     \o " successfully!"]]
                        /\ shown' = shown
                   ELSE /\ tasks' = tasks
                        /\ local' = [local EXCEPT ![s] = Idle]
                        /\ shown' = Render(s, "psycopg2.errors.ForeignKeyViolation")
       ELSE /\ seq' = seq
            /\ tasks' = tasks
            /\ local' = [local EXCEPT ![s] =
                            [op |-> "assign_listing", message |-> "Please fill all fields!"]]
            /\ shown' = shown
    /\ UNCHANGED <<users, work_reports, session, today>>

\* admin_assign_task, "Existing Tasks": the SELECT of the tasks, a statement
\* of its own that reads the store as it is by then, and the page of the run.
admin_assign_listing(s) ==
    /\ local[s].op = "assign_listing"
    /\ \E listing \in admin_task_listing(tasks, users) :
          shown' = RenderTable(s,
                      IF local[s].message # "" THEN local[s].message
                      ELSE IF listing = <<>> THEN "No tasks found." ELSE "",
                      [kind |-> "admin_tasks"], listing)
    /\ local' = [local EXCEPT ![s] = Idle]
    /\ UNCHANGED <<users, work_reports, tasks, seq, session, today>>

(***************************************************************************)
(* Employee dashboard.                                                     *)
(***************************************************************************)
\* cur.fetchone(): one of the rows found, None (0) when there is none.
FetchOne(ids) == IF ids = {} THEN {0} ELSE ids

\* employee_submit_report, to the SELECT of the existing report.
employee_submit_select(s, report_date, report_content) ==
    /\ local[s] = Idle
    /\ IsEmployee(s)
    /\ DateLE(report_date, today)
    /\ users' = Boot.users
    /\ seq' = [seq EXCEPT !.users = Boot.next]
    /\ IF report_content # ""
       THEN LET found == {r.id : r \in
                            {x \in work_reports : /\ x.user_id = session[s].id
                                                  /\ x.report_date = report_date}}
            IN  \E existing \in FetchOne(found) :
                  /\ existing = 0 => Inserts < MaxInserts
                  /\ local' = [local EXCEPT ![s] =
                                  [op |-> "submit", user_id |-> session[s].id,
                                   report_date |-> report_date,
                                   report_content |-> report_content,
                                   found |-> found,
                                   existing_report |-> existing]]
            /\ shown' = shown
       ELSE /\ local' = local
            /\ shown' = Render(s, "Please enter your work report!")
    /\ UNCHANGED <<work_reports, tasks, session, today>>

\* The write with no foreign key on work_reports.user_id: the INSERT goes
\* through whether or not the user is stored.
employee_submit_write_no_foreign_key(s) ==
    /\ local[s].op = "submit"
    /\ LET l == local[s]
           form == [kind |-> "submit_report", user_id |-> l.user_id,
                    report_date |-> l.report_date, report_content |-> l.report_content]
       IN  IF l.existing_report # 0
           THEN /\ l.existing_report \notin LockedReports(s)
                /\ work_reports' =
                       {IF r.id = l.existing_report
                        THEN [r EXCEPT !.report_content = l.report_content]
                        ELSE r : r \in work_reports}
                /\ seq' = seq
                /\ shown' = RenderTable(s, "Report updated successfully!", form, <<>>)
           ELSE /\ seq' = [seq EXCEPT !.work_reports = seq.work_reports + 1]
                /\ work_reports' = work_reports \cup
                       {[id |-> seq.work_reports, user_id |-> l.user_id,
                         report_date |-> l.report_date,
                         report_content |-> l.report_content]}
                /\ shown' = RenderTable(s, "Report submitted successfully!", form, <<>>)
    /\ local' = [local EXCEPT ![s] = Idle]
    /\ UNCHANGED <<users, tasks, session, today>>

\* employee_submit_report, the UPDATE or the INSERT, and the commit.
employee_submit_write(s) ==
    /\ local[s].op = "submit"
    /\ LET l == local[s]
           form == [kind |-> "submit_report", user_id |-> l.user_id,
                    report_date |-> l.report_date, report_content |-> l.report_content]
       IN  IF l.existing_report # 0
           THEN /\ l.existing_report \notin LockedReports(s)
                /\ work_reports' =
                       {IF r.id = l.existing_report
                        THEN [r EXCEPT !.report_content = l.report_content]
                        ELSE r : r \in work_reports}
                /\ seq' = seq
                /\ shown' = RenderTable(s, "Report updated successfully!", form, <<>>)
           ELSE /\ seq' = [seq EXCEPT !.work_reports = seq.work_reports + 1]
                /\ IF \E u \in users : u.id = l.user_id
                   THEN /\ work_reports' = work_reports \cup
                               {[id |-> seq.work_reports, user_id |-> l.user_id,
                                 report_date |-> l.report_date,
                                 report_content |-> l.report_content]}
                        /\ shown' = RenderTable(s, "Report submitted successfully!", form, <<>>)
                   ELSE /\ work_reports' = work_reports
                        /\ shown' = RenderTable(s, "psycopg2.errors.ForeignKeyViolation",
                                                form, <<>>)
    /\ local' = [local EXCEPT ![s] = Idle]
    /\ UNCHANGED <<users, tasks, session, today>>

\* The key of ORDER BY CASE WHEN status = 'pending' THEN 0 ELSE 1 END, due_date ASC
EmployeeTaskKey(t) ==
    <<IF t.status = "pending" THEN 0 ELSE 1,
      t.due_date.year, t.due_date.month, t.due_date.day>>

\* The SELECT without its WHERE clause: every user's tasks are listed.
employee_task_listing_of_all(T, user_id) ==
    LET row(t) == [id |-> t.id, task_description |-> t.task_description,
                   due_date |-> t.due_date, status |-> t.status]
        sorted == OrderBy(T, [t \in T |-> EmployeeTaskKey(t)])
    IN  {[i \in 1..Len(q) |-> row(q[i])] : q \in sorted}

\* SELECT id, task_description, due_date, status FROM tasks WHERE user_id = %s
\* ORDER BY CASE WHEN status = 'pending' THEN 0 ELSE 1 END, due_date ASC
employee_task_listing(T, user_id) ==
    LET mine == {t \in T : t.user_id = user_id}
        row(t) == [id |-> t.id, task_description |-> t.task_description,
                   due_date |-> t.due_date, status |-> t.status]
        sorted == OrderBy(mine, [t \in mine |-> EmployeeTaskKey(t)])
    IN  {[i \in 1..Len(q) |-> row(q[i])] : q \in sorted}

\* pending_tasks = [task for task in tasks if task['status'] == 'pending']
pending_tasks(listing) ==
    {listing[i].id : i \in {j \in 1..Len(listing) : listing[j].status = "pending"}}

\* employee_view_tasks, to the SELECT of the session's tasks; with the button
\* pressed on a pending task the run goes on to the UPDATE.
employee_view_tasks(s, pressed) ==
    /\ local[s] = Idle
    /\ IsEmployee(s)
    /\ users' = Boot.users
    /\ seq' = [seq EXCEPT !.users = Boot.next]
    /\ \E listing \in employee_task_listing(tasks, session[s].id) :
          IF listing = <<>>
          THEN /\ local' = local
               /\ shown' = Render(s, "No tasks assigned to you.")
          ELSE IF pending_tasks(listing) = {}
          THEN /\ local' = local
               /\ shown' = RenderTable(s, "No pending tasks found.",
                                        [kind |-> "employee_tasks"], listing)
          ELSE IF pressed
          THEN /\ local' = [local EXCEPT ![s] = [op |-> "tasks", tasks |-> listing]]
               /\ shown' = shown
          ELSE /\ local' = local
               /\ shown' = RenderTable(s, "", [kind |-> "employee_tasks"], listing)
    /\ UNCHANGED <<work_reports, tasks, session, today>>

\* The UPDATE flips the status instead of setting it.
employee_complete_task_toggles(s, selected_task_id) ==
    /\ local[s].op = "tasks"
    /\ selected_task_id \in pending_tasks(local[s].tasks)
    /\ selected_task_id \notin LockedTasks(s)
    /\ tasks' = {IF t.id = selected_task_id
                 THEN [t EXCEPT !.status = IF t.status = "pending"
                                           THEN "completed" ELSE "pending"]
                 ELSE t : t \in tasks}
    /\ local' = [local EXCEPT ![s] = Idle]
    /\ shown' = Render(s, "Task marked as complete!")
    /\ UNCHANGED <<users, work_reports, seq, session, today>>

\* UPDATE tasks SET status = 'completed' WHERE id = %s; commit
employee_complete_task(s, selected_task_id) ==
    /\ local[s].op = "tasks"
    /\ selected_task_id \in pending_tasks(local[s].tasks)
    /\ selected_task_id \notin LockedTasks(s)
    /\ tasks' = {IF t.id = selected_task_id THEN [t EXCEPT !.status = "completed"] ELSE t
                 : t \in tasks}
    /\ local' = [local EXCEPT ![s] = Idle]
    /\ shown' = Render(s, "Task marked as complete!")
    /\ UNCHANGED <<users, work_reports, seq, session, today>>

(***************************************************************************)
(* The report views.                                                       *)
(***************************************************************************)
Periods == {"Daily", "Weekly", "Monthly", "Yearly"}

\* The value the date widget starts with, for each period.
DefaultDate(report_period, t) ==
    CASE report_period = "Daily" -> t
      [] report_period = "Weekly" -> AddDays(t, 0 - weekday(t))
      [] report_period = "Monthly" -> ReplaceDay1(t)
      [] OTHER -> ReplaceMonth1Day1(t)

\* admin_view_reports: the condition on wr.report_date its query is built with.
admin_report_where(report_period, selected_date, report_date) ==
    IF report_period = "Daily"
    THEN report_date = selected_date
    ELSE IF report_period = "Weekly"
    THEN LET week_end == AddDays(selected_date, 6)
         IN  DateLE(selected_date, report_date) /\ DateLE(report_date, week_end)
    ELSE IF report_period = "Monthly"
    THEN report_date.year = selected_date.year /\ report_date.month = selected_date.month
    ELSE report_date.year = selected_date.year

\* The week taken a day too long.
employee_report_where_8_days(report_period, selected_date, report_date) ==
    IF report_period = "Daily"
    THEN report_date = selected_date
    ELSE IF report_period = "Weekly"
    THEN LET week_end == AddDays(selected_date, 7)
         IN  DateLE(selected_date, report_date) /\ DateLE(report_date, week_end)
    ELSE IF report_period = "Monthly"
    THEN report_date.year = selected_date.year /\ report_date.month = selected_date.month
    ELSE report_date.year = selected_date.year

\* employee_view_reports: the condition on report_date its query is built with.
employee_report_where(report_period, selected_date, report_date) ==
    IF report_period = "Daily"
    THEN report_date = selected_date
    ELSE IF report_period = "Weekly"
    THEN LET week_end == AddDays(selected_date, 6)
         IN  DateLE(selected_date, report_date) /\ DateLE(report_date, week_end)
    ELSE IF report_period = "Monthly"
    THEN report_date.year = selected_date.year /\ report_date.month = selected_date.month
    ELSE report_date.year = selected_date.year

\* The key of ORDER BY report_date DESC
ReportKey(r) == <<0 - r.report_date.year, 0 - r.report_date.month, 0 - r.report_date.day>>

\* admin_view_reports: SELECT the employees; the filters are chosen among
\* them, and the run goes on to the query of the reports.
admin_view_reports(s, selected_employee, report_period, selected_date) ==
    /\ local[s] = Idle
    /\ IsAdmin(s)
    /\ users' = Boot.users
    /\ seq' = [seq EXCEPT !.users = Boot.next]
    /\ LET employees == {u \in Boot.users : u.role = "employee"}
       IN  IF employees = {}
           THEN /\ local' = local
                /\ shown' = Render(s, "No employees found.")
           ELSE /\ selected_employee \in {"All Employees"} \cup {e.username : e \in employees}
                /\ local' = [local EXCEPT ![s] =
                                [op |-> "reports",
                                 selected_employee |-> selected_employee,
                                 report_period |-> report_period,
                                 selected_date |-> selected_date]]
                /\ shown' = shown
    /\ UNCHANGED <<work_reports, tasks, session, today>>

\* admin_view_reports: the query of the reports, a statement of its own that
\* reads the store as it is by then, and its rows.
admin_view_reports_query(s) ==
    /\ local[s].op = "reports"
    /\ LET l == local[s]
           found == {wr \in work_reports :
                        /\ \E u \in users :
                              /\ wr.user_id = u.id
                              /\ l.selected_employee # "All Employees"
                                    => u.username = l.selected_employee
                        /\ admin_report_where(l.report_period, l.selected_date,
                                              wr.report_date)}
           row(wr) == [username |-> (CHOOSE u \in users : u.id = wr.user_id).username,
                       report_date |-> wr.report_date,
                       report_content |-> wr.report_content]
       IN  \E q \in OrderBy(found, [wr \in found |-> ReportKey(wr)]) :
              shown' = RenderTable(s,
                          IF q = <<>>
                          THEN "No reports found for the selected criteria."
                          ELSE "",
                          [kind |-> "admin_reports",
                           selected_employee |-> l.selected_employee,
                           report_period |-> l.report_period,
                           selected_date |-> l.selected_date],
                          [i \in 1..Len(q) |-> row(q[i])])
    /\ local' = [local EXCEPT ![s] = Idle]
    /\ UNCHANGED <<users, work_reports, tasks, seq, session, today>>

\* employee_view_reports: the filters, the query and its rows.
employee_view_reports(s, report_period, selected_date) ==
    /\ local[s] = Idle
    /\ IsEmployee(s)
    /\ users' = Boot.users
    /\ seq' = [seq EXCEPT !.users = Boot.next]
    /\ LET found == {wr \in work_reports :
                        /\ wr.user_id = session[s].id
                        /\ employee_report_where(report_period, selected_date,
                                                 wr.report_date)}
           row(wr) == [report_date |-> wr.report_date,
                       report_content |-> wr.report_content]
       IN  \E q \in OrderBy(found, [wr \in found |-> ReportKey(wr)]) :
              shown' = RenderTable(s,
                          IF q = <<>>
                          THEN "No reports found for the selected criteria."
                          ELSE "",
                          [kind |-> "employee_reports",
                           user_id |-> session[s].id,
                           report_period |-> report_period,
                           selected_date |-> selected_date],
                          [i \in 1..Len(q) |-> row(q[i])])
    /\ UNCHANGED <<work_reports, tasks, session, local, today>>

ReportDates == {Date(2024, 3, 14), Date(2024, 3, 15)}
DueDates == {Date(2024, 3, 15)}

\* The runs that write, with the runs they interleave with.  The runs that
\* only list the tasks or the reports are the steps of SpecList and SpecPeriod.
Next ==
    \/ \E s \in Sessions : Rerun(s)
    \/ \E s \in Sessions, u \in LoginNames, p \in LoginPasswords : Login(s, u, p)
    \/ \E s \in Sessions : Logout(s)
    \/ \E s \in Sessions, u \in EmployeeNames \cup {"admin", ""},
          p \in NewPasswords \cup {""} : admin_create_employee(s, u, p)
    \/ \E s \in Sessions, u \in EmployeeNames : admin_manage_select(s, u)
    \/ \E s \in Sessions : admin_delete_reports(s)
    \/ \E s \in Sessions : admin_delete_tasks(s)
    \/ \E s \in Sessions : admin_delete_user(s)
    \/ \E s \in Sessions : admin_assign_select(s, TRUE)
    \/ \E s \in Sessions, u \in EmployeeNames, t \in Descriptions \cup {""},
          d \in DueDates : admin_assign_insert(s, u, t, d)
    \/ \E s \in Sessions : admin_assign_listing(s)
    \/ \E s \in Sessions, d \in ReportDates, c \in Contents \cup {""} :
          employee_submit_select(s, d, c)
    \/ \E s \in Sessions : employee_submit_write(s)
    \/ \E s \in Sessions, b \in BOOLEAN : employee_view_tasks(s, b)
    \/ \E s \in Sessions, t \in 1..MaxInserts : employee_complete_task(s, t)

Spec == Init /\ [][Next]_vars

(***************************************************************************)
(* The report views alone, over a store that holds reports around the      *)
(* ends of a week, a month and a year.  s1 is signed in, as the admin or as *)
(* alice; s2 is anonymous.                                                 *)
(***************************************************************************)
PeriodDates ==
    {Date(2023, 12, 31), Date(2024, 1, 1), Date(2024, 2, 29), Date(2024, 3, 1),
     Date(2024, 3, 10), Date(2024, 3, 11), Date(2024, 3, 15), Date(2024, 3, 17),
     Date(2024, 3, 18), Date(2024, 3, 21), Date(2024, 3, 22), Date(2024, 3, 31),
     Date(2024, 4, 1), Date(2024, 12, 31), Date(2025, 1, 1)}

BobDates == {Date(2024, 3, 11), Date(2024, 3, 31)}

\* The dates picked in the date widget (its starting value is picked too).
AnchorDates ==
    {Date(2023, 12, 31), Date(2024, 2, 29), Date(2024, 3, 1), Date(2024, 3, 11),
     Date(2024, 3, 15), Date(2024, 3, 31), Date(2024, 12, 31)}

AdminRow == CHOOSE u \in init_db({}, 1).users : TRUE

EmployeeRow(id, username) ==
    [id |-> id, username |-> username, password |-> hash_password("pw1"),
     role |-> "employee"]

\* Reports 1..n of alice, one for each date of PeriodDates in calendar order,
\* then bob's.
PeriodReports ==
    LET rank(d, D) == Cardinality({e \in D : DateLE(e, d)})
    IN  {[id |-> rank(d, PeriodDates), user_id |-> 2, report_date |-> d,
          report_content |-> "c1"] : d \in PeriodDates}
        \cup {[id |-> Cardinality(PeriodDates) + rank(d, BobDates), user_id |-> 3,
               report_date |-> d, report_content |-> "c2"] : d \in BobDates}

InitPeriod ==
    /\ users = {AdminRow, EmployeeRow(2, "alice"), EmployeeRow(3, "bob")}
    /\ work_reports = PeriodReports
    /\ tasks = {}
    /\ seq = [users |-> 4, work_reports |-> Cardinality(PeriodReports) + 1, tasks |-> 1]
    /\ \E viewer \in {AdminRow, EmployeeRow(2, "alice")} :
          session = [s \in Sessions |-> IF s = "s1" THEN viewer ELSE None]
    /\ local = [s \in Sessions |-> Idle]
    /\ shown = Render("s1", "")
    /\ today = Date(2025, 1, 3)

NextPeriod ==
    \/ \E s \in Sessions, e \in {"All Employees"} \cup EmployeeNames, p \in Periods :
          \E d \in AnchorDates \cup {DefaultDate(p, today)} :
             admin_view_reports(s, e, p, d)
    \/ \E s \in Sessions : admin_view_reports_query(s)
    \/ \E s \in Sessions, p \in Periods :
          \E d \in AnchorDates \cup {DefaultDate(p, today)} :
             employee_view_reports(s, p, d)

SpecPeriod == InitPeriod /\ [][NextPeriod]_vars

(***************************************************************************)
(* The task listings, over every tasks table of MaxListed rows.            *)
(***************************************************************************)
ListDueDates == {Date(2024, 3, 15), Date(2024, 3, 16), Date(2024, 3, 17)}

TaskRows(id) ==
    {[id |-> id, user_id |-> u, task_description |-> "t1", due_date |-> d, status |-> st] :
        u \in {2, 3}, d \in ListDueDates, st \in {"pending", "completed"}}

InitList ==
    /\ users = {AdminRow, EmployeeRow(2, "alice"), EmployeeRow(3, "bob")}
    /\ work_reports = {}
    /\ \E f \in [1..MaxListed -> TaskRows(0)] :
          tasks = {[f[i] EXCEPT !.id = i] : i \in 1..MaxListed}
    /\ seq = [users |-> 4, work_reports |-> 1, tasks |-> MaxListed + 1]
    /\ session = [s \in Sessions |-> IF s = "s1" THEN AdminRow ELSE EmployeeRow(2, "alice")]
    /\ local = [s \in Sessions |-> Idle]
    /\ shown = Render("s1", "")
    /\ today = Date(2024, 3, 15)

NextList ==
    \/ \E s \in Sessions : admin_assign_select(s, FALSE)
    \/ \E s \in Sessions : admin_assign_listing(s)
    \/ \E s \in Sessions, b \in BOOLEAN : employee_view_tasks(s, b)
    \/ \E s \in Sessions, t \in 1..MaxListed : employee_complete_task(s, t)

SpecList == InitList /\ [][NextList]_vars

(***************************************************************************)
(* Properties.                                                             *)
(***************************************************************************)
ReportsOf(W, user_id, report_date) ==
    {r \in W : r.user_id = user_id /\ r.report_date = report_date}

\* The step of session s that ends its report submission (UPDATE or INSERT,
\* and the commit).
SubmitCommits(s) == local[s].op = "submit" /\ local'[s] = Idle

\* The submission of s did not overlap the insertion or the removal of a
\* report of the same (user, date): the rows its SELECT found are the rows the
\* store holds when it writes.
NotOverlapped(s) ==
    local[s].found = {r.id : r \in ReportsOf(work_reports, local[s].user_id,
                                             local[s].report_date)}

\* The last run that ended was a successful submission for the same user and
\* date as the one s is ending, with another content.
FollowsSubmission(s) ==
    /\ shown.form.kind = "submit_report"
    /\ shown.message \in {"Report submitted successfully!", "Report updated successfully!"}
    /\ shown.form.user_id = local[s].user_id
    /\ shown.form.report_date = local[s].report_date
    /\ shown.form.report_content # local[s].report_content

\* C1: of two submissions by one user of the store for one date, made one after the other
\* with contents c1 then c2, the second takes the 'updated' branch and leaves
\* exactly one report of that user and date, holding c2; a submission takes
\* the 'created' branch only when the store held no report of that user and
\* date.
C1_SequentialUpsert ==
    [][\A s \in Sessions :
          /\ SubmitCommits(s)
          /\ NotOverlapped(s)
          /\ \E u \in users : u.id = local[s].user_id
          =>
             /\ shown'.message = "Report submitted successfully!" =>
                   ReportsOf(work_reports, local[s].user_id, local[s].report_date) = {}
             /\ FollowsSubmission(s) =>
                   /\ shown'.message = "Report updated successfully!"
                   /\ \E r \in work_reports' :
                         /\ r.report_content = local[s].report_content
                         /\ ReportsOf(work_reports', local[s].user_id,
                                      local[s].report_date) = {r}]_vars

\* C2: the store never holds two reports of one user for one date, and when
\* a submission has committed, the one report of its user and date holds its
\* content.
C2_OneReportPerUserAndDate ==
    /\ \A r1 \in work_reports, r2 \in work_reports :
          r1.user_id = r2.user_id /\ r1.report_date = r2.report_date => r1 = r2
    /\ /\ shown.form.kind = "submit_report"
       /\ shown.message \in {"Report submitted successfully!",
                             "Report updated successfully!"}
       => \E r \in work_reports :
             /\ r.report_content = shown.form.report_content
             /\ ReportsOf(work_reports, shown.form.user_id, shown.form.report_date) = {r}

\* The period predicate as the specification states it, on day numbers.
InPeriod(report_period, a, r) ==
    CASE report_period = "Daily" -> r = a
      [] report_period = "Weekly" ->
             toordinal(a) <= toordinal(r) /\ toordinal(r) <= toordinal(a) + 6
      [] report_period = "Monthly" -> r.year = a.year /\ r.month = a.month
      [] report_period = "Yearly" -> r.year = a.year

\* The reports a rendered report view has to hold: those of its user filter
\* whose date meets Within(report_date).
ViewedReports(Within(_)) ==
    IF shown.form.kind = "admin_reports"
    THEN {wr \in work_reports :
             /\ \E u \in users :
                   /\ u.id = wr.user_id
                   /\ shown.form.selected_employee \in {"All Employees", u.username}
             /\ Within(wr.report_date)}
    ELSE {wr \in work_reports :
             wr.user_id = shown.form.user_id /\ Within(wr.report_date)}

\* The rendered table holds exactly the reports of R (it names no report's
\* id: a report is told by its date, content and, in the admin view, user).
TableHolds(R) ==
    /\ Len(shown.table) = Cardinality(R)
    /\ \A wr \in R : \E i \in 1..Len(shown.table) :
          /\ shown.table[i].report_date = wr.report_date
          /\ shown.table[i].report_content = wr.report_content
    /\ \A i \in 1..Len(shown.table) : \E wr \in R :
          /\ shown.table[i].report_date = wr.report_date
          /\ shown.table[i].report_content = wr.report_content

\* C3: the admin and the employee report view hold a report (of their user
\* filter) exactly when its date r meets the period of the anchor a: Daily
\* r = a, Weekly a <= r <= a + 6 days, Monthly the year and month of a, Yearly
\* the year of a; and the two views build the same condition.
C3_PeriodPredicate ==
    /\ shown.form.kind \in {"admin_reports", "employee_reports"} =>
          LET Within(r) == InPeriod(shown.form.report_period, shown.form.selected_date, r)
          IN  TableHolds(ViewedReports(Within))
    /\ \A p \in Periods, a \in AnchorDates, r \in PeriodDates :
          admin_report_where(p, a, r) <=> employee_report_where(p, a, r)

\* C3 witness: a Monthly view anchored inside March 2024 that shows the
\* reports of 2024-03-01 and 2024-03-31.
C3_Witness ==
    /\ shown.form.kind \in {"admin_reports", "employee_reports"}
    /\ shown.form.report_period = "Monthly"
    /\ shown.form.selected_date = Date(2024, 3, 15)
    /\ \E i \in 1..Len(shown.table) : shown.table[i].report_date = Date(2024, 3, 1)
    /\ \E i \in 1..Len(shown.table) : shown.table[i].report_date = Date(2024, 3, 31)
    /\ \A i \in 1..Len(shown.table) :
          shown.table[i].report_date \notin {Date(2024, 2, 29), Date(2024, 4, 1)}

\* C4: a Weekly view shows the reports of the week from the Monday of the
\* selected date's week to the Sunday after it, whatever date was selected.
C4_WeekStartsOnMonday ==
    shown.form.kind \in {"admin_reports", "employee_reports"}
    /\ shown.form.report_period = "Weekly" =>
       LET monday == toordinal(shown.form.selected_date)
                     - weekday(shown.form.selected_date)
           Within(r) == monday <= toordinal(r) /\ toordinal(r) <= monday + 6
       IN  TableHolds(ViewedReports(Within))

\* Row a of a task listing may stand before row b: a pending task before a
\* completed one, and of two tasks of one status the one due no later.
TaskRowBefore(a, b) ==
    \/ a.status = "pending" /\ b.status # "pending"
    \/ /\ (a.status = "pending") <=> (b.status = "pending")
       /\ toordinal(a.due_date) <= toordinal(b.due_date)

\* C9: the employee's and the admin's task listing both come ordered by
\* status, pending before completed, and within a status by due date
\* ascending.
C9_TaskListingOrder ==
    shown.form.kind \in {"admin_tasks", "employee_tasks"} =>
       \A i \in 1..Len(shown.table), j \in 1..Len(shown.table) :
          i < j => TaskRowBefore(shown.table[i], shown.table[j])

\* C5: a users row leaves the store only in the commit of a removal that has
\* run its DELETE of the user's reports and its DELETE of the user's tasks;
\* once committed, no report and no task references the user, and every
\* other user's rows are as they were.
C5_CascadeOnDeletion ==
    [][\A u \in users : u \notin users' =>
          LET s == shown'.session
          IN  /\ local[s].op = "delete"
              /\ local[s].stage = "users"
              /\ local[s].employee_id = u.id
              /\ local'[s] = Idle
              /\ users' = users \ {u}
              /\ \A r \in work_reports' : r.user_id # u.id
              /\ \A t \in tasks' : t.user_id # u.id
              /\ work_reports' = {r \in work_reports : r.user_id # u.id}
              /\ tasks' = {t \in tasks : t.user_id # u.id}]_vars

\* C5 witness: a removal has committed for an employee whose id the store
\* gave out, while a task of another employee is still there.
C5_Witness ==
    /\ shown.message = "Employee alice removed successfully!"
    /\ ~ \E u \in users : u.username = "alice"
    /\ \E t \in tasks : \E u \in users : u.id = t.user_id /\ u.username = "bob"

\* C6: a session is Anonymous (None) or Authenticated(a users row); it starts
\* Anonymous, becomes Authenticated(u) only in a login whose authenticate
\* call returned u, stays Anonymous in a failed login, becomes Anonymous only
\* in a logout, and no other run changes it.
C6_SessionStates ==
    /\ \A s \in Sessions : session[s] = None
    /\ [](\A s \in Sessions :
             session[s] = None \/ session[s].role \in {"admin", "employee"})
    /\ [][\A s \in Sessions :
             /\ session'[s] # session[s] =>
                   /\ shown'.session = s
                   /\ UNCHANGED <<users, work_reports, tasks, local>>
                   /\ \/ /\ session[s] = None
                         /\ \E n \in LoginNames, p \in LoginPasswords :
                               /\ authenticate(users, n, p) # None
                               /\ session'[s] = authenticate(users, n, p)
                      \/ /\ session[s] # None
                         /\ session'[s] = None
                         /\ shown' = Render(s, "")
             /\ (shown' # shown /\ shown'.session = s
                 /\ shown'.message = "Invalid username or password") =>
                   session[s] = None /\ session'[s] = None]_vars

\* C6 witness: a session that signed in as an employee, with the store
\* changed since by a report of that employee.
C6_Witness ==
    \E s \in Sessions :
       /\ session[s] # None
       /\ session[s].role = "employee"
       /\ \E r \in work_reports : r.user_id = session[s].id

\* The session whose run takes the step: the one whose position in its run
\* changes, or else the one whose page is rendered.
Acting ==
    IF \E x \in Sessions : local'[x] # local[x]
    THEN CHOOSE x \in Sessions : local'[x] # local[x]
    ELSE shown'.session

\* C7: whoever changes the store is signed in with the role the change
\* needs.  A
\* task is created only by a session signed in as admin, one task at a time,
\* pending, for a user whose role is employee; a report is inserted or
\* updated only by a session signed in as its owning, non-admin user; a task
\* becomes completed only by a session signed in as its assignee, and only a
\* task that session's own listing showed pending; users are created and
\* removed only by a session signed in as admin; an Anonymous session
\* changes nothing.
C7_RoleGating ==
    [][LET s == Acting
       IN  /\ <<users, work_reports, tasks>>' # <<users, work_reports, tasks>> =>
                 session[s] # None
           /\ users' # users => session[s].role = "admin"
           /\ \A t \in tasks' : (\A o \in tasks : o.id # t.id) =>
                 /\ session[s].role = "admin"
                 /\ local[s].op = "assign"
                 /\ t.status = "pending"
                 /\ \E u \in users : u.id = t.user_id /\ u.role = "employee"
                 /\ tasks' = tasks \cup {t}
           /\ \A r \in work_reports' \ work_reports :
                 /\ session[s].role # "admin"
                 /\ local[s].op = "submit"
                 /\ r.user_id = session[s].id
           /\ \A t \in tasks' : \A o \in tasks :
                 o.id = t.id /\ o.status # "completed" /\ t.status = "completed" =>
                    /\ session[s].id = o.user_id
                    /\ local[s].op = "tasks"
                    /\ o.id \in pending_tasks(local[s].tasks)]_vars

\* C7 witness: an employee has completed a task the admin assigned, and has
\* a report in the store.
C7_Witness ==
    /\ shown.message = "Task marked as complete!"
    /\ \E t \in tasks : t.status = "completed" /\ session[shown.session].id = t.user_id
    /\ \E r \in work_reports : r.user_id = session[shown.session].id

\* C8: in every state authenticate("admin", "admin123") is the admin's row;
\* a stored name with a password that is not its own, and a name that is not
\* stored, both give None; a login that fails renders the one message
\* "Invalid username or password", and a login changes no users row.
C8_Authentication ==
    /\ [](/\ authenticate(users, "admin", "admin123") # None
          /\ authenticate(users, "admin", "admin123").username = "admin"
          /\ authenticate(users, "admin", "admin123").role = "admin"
          /\ authenticate(init_db(users, seq.users).users, "admin", "admin123")
                = authenticate(users, "admin", "admin123")
          /\ \A u \in users, p \in LoginPasswords :
                (\/ u.username = "admin" /\ p # "admin123"
                 \/ u.username # "admin" /\ p \notin NewPasswords)
                => authenticate(users, u.username, p) = None
          /\ \A n \in LoginNames \cup EmployeeNames, p \in LoginPasswords :
                (\A u \in users : u.username # n) => authenticate(users, n, p) = None)
    /\ [][\A s \in Sessions :
             /\ session[s] = None /\ shown'.session = s /\ shown' # shown
                /\ session'[s] = None
                /\ shown'.message # "Please login to access the system."
                => shown' = Render(s, "Invalid username or password")
             /\ session[s] = None /\ shown'.session = s => users' = users]_vars

\* C8 witness: an employee account exists beside the admin's, and the last
\* run was a login that failed.
C8_Witness ==
    /\ shown.message = "Invalid username or password"
    /\ \E u \in users : u.username = "alice"
    /\ seq.users > 2

\* C10: a task is created pending; a completed task is completed in every
\* later state that holds it; completing a task leaves it completed, also
\* when it was completed already.
C10_StatusMonotone ==
    [][/\ \A t \in tasks' : (\A o \in tasks : o.id # t.id) => t.status = "pending"
       /\ \A o \in tasks, t \in tasks' :
             o.id = t.id /\ o.status = "completed" => t.status = "completed"
       /\ \A s \in Sessions :
             local[s].op = "tasks" /\ local'[s] = Idle =>
                /\ shown'.message = "Task marked as complete!"
                /\ \A o \in tasks, t \in tasks' :
                      o.id = t.id => t.status \in {o.status, "completed"}
                /\ \E id \in pending_tasks(local[s].tasks) :
                      \A t \in tasks' : t.id = id => t.status = "completed"]_vars

\* C10 witness: a session is about to complete a task that its listing showed
\* pending and that another session has completed since.
C10_Witness ==
    \E s \in Sessions :
       /\ local[s].op = "tasks"
       /\ \E t \in tasks : t.status = "completed" /\ t.id \in pending_tasks(local[s].tasks)

\* The users row a report or a task references is stored.
Referenced(U, user_id) == \E u \in U : u.id = user_id

\* C11: every report and every task references a stored user, in every
\* state.  A submission by a session whose user has been removed finds no
\* report of that user, its INSERT is rejected by the foreign key and no row
\* of that user is created; the INSERT of a task for an employee read from a
\* list that was fetched before the removal committed is rejected likewise,
\* and a rejected write leaves the tables as they were.
C11_ReferentialIntegrity ==
    /\ [](/\ \A r \in work_reports : Referenced(users, r.user_id)
          /\ \A t \in tasks : Referenced(users, t.user_id))
    /\ [][\A s \in Sessions :
             /\ (local[s] = Idle /\ local'[s] # Idle /\ local'[s].op = "submit"
                 /\ ~ Referenced(users', local'[s].user_id)) =>
                   local'[s].found = {} /\ local'[s].existing_report = 0
             /\ (local[s].op = "submit" /\ local'[s] = Idle
                 /\ ~ Referenced(users, local[s].user_id)) =>
                   /\ \A r \in work_reports' : r.user_id # local[s].user_id
                   /\ local[s].existing_report = 0 =>
                         /\ shown'.message = "psycopg2.errors.ForeignKeyViolation"
                         /\ work_reports' = work_reports
             /\ (local[s].op = "assign" /\ local'[s] # local[s]) =>
                   /\ \A t \in tasks' \ tasks : Referenced(users, t.user_id)
                   /\ local'[s] = Idle =>
                         /\ shown' = Render(s, "psycopg2.errors.ForeignKeyViolation")
                         /\ tasks' = tasks
                         /\ \E e \in local[s].employees : ~ Referenced(users, e.id)
                   /\ ((\A e \in local[s].employees : ~ Referenced(users, e.id))
                       /\ (local'[s] = Idle
                           \/ local'[s].message # "Please fill all fields!")) =>
                         /\ local'[s] = Idle
                         /\ shown' = Render(s, "psycopg2.errors.ForeignKeyViolation")
                         /\ tasks' = tasks]_vars

\* C11 witness: a session still signed in as an employee whose account has
\* been removed has had the INSERT of its report rejected.
C11_Witness ==
    /\ shown.message = "psycopg2.errors.ForeignKeyViolation"
    /\ shown.form.kind = "submit_report"
    /\ session[shown.session] # None
    /\ session[shown.session].id = shown.form.user_id
    /\ ~ Referenced(users, shown.form.user_id)

====
